---- MODULE Spec2Model ----
(***************************************************************************)
(* Aviation RAG system: temporal extraction, LexML/PDF parsing, chunking,  *)
(* ingestion into the vector store, temporal search and the supersession   *)
(* protocol of the Version Manager.                                        *)
(*                                                                         *)
(* Representation.                                                         *)
(*  - An ISO date "YYYY-MM-DD" is the integer YYYYMMDD: the order of the   *)
(*    integers is the order of the ISO strings.  Python's None is NoDate   *)
(*    for a date and NoneStr for a string.                                 *)
(*  - A text is a sequence of paragraphs (joined by a blank line in the    *)
(*    code); a paragraph is a sequence of tokens.  A token is a run of n   *)
(*    plain words, or one of the phrases the regular expressions of the    *)
(*    temporal extractor recognise.                                        *)
(*  - Identifiers are the strings the code formats.                        *)
(***************************************************************************)
EXTENDS Integers, Sequences, FiniteSets, TLC

(***************************************************************************)
(* Python values                                                           *)
(***************************************************************************)
NoDate == 0
NoneStr == "<None>"
\* str(None) inside an f-string
Fmt(s) == IF s = NoneStr THEN "None" ELSE s
\* a publication date string that is not ISO (datetime.fromisoformat raises)
BadIso == -1

(***************************************************************************)
(* Program constants (config.py, qdrant_manager.py, temporal_extractor.py) *)
(***************************************************************************)
CHUNK_MAX_TOKENS == 512
CHUNK_OVERLAP == 50
DEFAULT_EFFECTIVE_DAYS == 90
SEARCH_TOP_K == 5
\* 0.7, scores are in hundredths
SEARCH_SCORE_THRESHOLD == 70
UPSERT_BATCH_SIZE == 100
SCROLL_LIMIT == 1000
REVOCATION_WINDOW == 100
\* the year of the clock, read by dateutil for two-digit years
ClockYear == 2026

(***************************************************************************)
(* Calendar: datetime / timedelta                                          *)
(***************************************************************************)
YearOf(d) == d \div 10000
MonthOf(d) == (d \div 100) % 100
DayOf(d) == d % 100
MkDate(y, m, d) == y * 10000 + m * 100 + d

IsLeap(y) == (y % 4 = 0 /\ y % 100 # 0) \/ y % 400 = 0

DaysIn(y, m) ==
    IF m = 2 THEN (IF IsLeap(y) THEN 29 ELSE 28)
    ELSE IF m \in {4, 6, 9, 11} THEN 30 ELSE 31

ValidYMD(y, m, d) ==
    /\ y \in 1..9999
    /\ m \in 1..12
    /\ d >= 1
    /\ d <= DaysIn(y, m)

\* the first day of the month after that of d
NextMonth(d) ==
    IF MonthOf(d) < 12 THEN MkDate(YearOf(d), MonthOf(d) + 1, 1)
    ELSE MkDate(YearOf(d) + 1, 1, 1)

\* d + timedelta(days=n), a month at a time
RECURSIVE PlusDays(_, _)
PlusDays(d, n) ==
    LET rest == DaysIn(YearOf(d), MonthOf(d)) - DayOf(d)
    IN  IF n <= rest THEN d + n
        ELSE PlusDays(NextMonth(d), n - rest - 1)

\* _add_days_to_date: datetime.fromisoformat(date_str) + timedelta(days).
\* The result is NoDate with raised = TRUE when fromisoformat raises
\* (ValueError) or the sum is past the year 9999 (OverflowError).
AddDaysToDate(date_str, days) ==
    IF date_str = BadIso \/ ~ValidYMD(YearOf(date_str), MonthOf(date_str), DayOf(date_str))
    THEN [raised |-> TRUE, date |-> NoDate]
    ELSE IF YearOf(PlusDays(date_str, days)) > 9999
    THEN [raised |-> TRUE, date |-> NoDate]
    ELSE [raised |-> FALSE, date |-> PlusDays(date_str, days)]

(***************************************************************************)
(* Date literals  a/b/y  and dateutil's day-first parse                    *)
(***************************************************************************)
\* A literal is <<a, b, y, ydigits>>: the three digit runs of
\* (\d{1,2})[/-](\d{1,2})[/-](\d{2,4}) and the number of digits of the last.
Lit(a, b, y) == <<a, b, y, 4>>
LitShort(a, b, y, n) == <<a, b, y, n>>

\* dateutil convertyear: a two-digit year is taken within 50 years of the clock
ConvertYear(y, ydigits) ==
    IF ydigits > 2 THEN y
    ELSE LET c == y + (ClockYear \div 100) * 100
         IN  IF c >= ClockYear + 50 THEN c - 100
             ELSE IF c < ClockYear - 50 THEN c + 100
             ELSE c

\* _parse_date: date_parser.parse(date_str, dayfirst=True).strftime("%Y-%m-%d"),
\* None when the parse raises.
\* resolve_ymd for the three numbers a, b, y (y of yd digits), dayfirst
ResolveYmd(a, b, y, yd) ==
    IF a > 31 /\ yd <= 2
    THEN (IF y <= 12 THEN <<ConvertYear(a, 2), y, b>>
                     ELSE <<ConvertYear(a, 2), b, y>>)
    ELSE IF a > 31 THEN <<0, 0, 0>>
    ELSE IF a > 12 \/ b <= 12 THEN <<ConvertYear(y, yd), b, a>>
    ELSE <<ConvertYear(y, yd), a, b>>
\* the datetime of a resolved year, month, day; NoDate when it is no date
Strftime(ymd) ==
    IF ValidYMD(ymd[1], ymd[2], ymd[3])
    THEN MkDate(ymd[1], ymd[2], ymd[3])
    ELSE NoDate
ParseDate(lit) == Strftime(ResolveYmd(lit[1], lit[2], lit[3], lit[4]))

(***************************************************************************)
(* Tokens of a text                                                        *)
(***************************************************************************)
NoLit == <<0, 0, 0, 0>>
\* n plain words of five letters
Words(n) == [k |-> "w", p |-> 0, lit |-> NoLit, n |-> n]
\* an explicit effective-date phrase of effective_patterns[p], p in 1..4,
\* ending with the date literal lit: "entra em vigor em 15/06/2023"
Eff(p, lit) == [k |-> "eff", p |-> p, lit |-> lit, n |-> 5]
\* effective_patterns[5]: "após publicação", "da sua publicação"
Pub == [k |-> "pub", p |-> 5, lit |-> NoLit, n |-> 2]
\* "na data de sua publicação": no pattern matches it ("de", not "da")
PubDe == [k |-> "pubde", p |-> 0, lit |-> NoLit, n |-> 5]
\* a revocation cue of revocation_patterns[p], p in 1..4: "fica revogado"
Rev(p) == [k |-> "rev", p |-> p, lit |-> NoLit, n |-> 2]
\* a date literal on its own
DateTok(lit) == [k |-> "date", p |-> 0, lit |-> lit, n |-> 1]

HasLit(t) == t.k \in {"eff", "date"}

\* characters of a token as rendered: words of five letters, phrases of
\* n - 1 such words before the literal "dd/mm/" + year, single spaces between
Chars(t) ==
    IF t.k = "w" THEN 6 * t.n - 1
    ELSE IF t.k = "eff" THEN 6 * (t.n - 1) + 6 + t.lit[4]
    ELSE IF t.k = "date" THEN 6 + t.lit[4]
    ELSE 6 * t.n - 1
\* offset of the literal inside the token
LitOffset(t) == IF t.k = "eff" THEN 6 * (t.n - 1) ELSE 0

\* the text as one sequence of tokens with the separator that precedes each
\* (0 at the start, 1 for a space, 2 for the blank line between paragraphs)
RECURSIVE FlatFrom(_, _)
FlatFrom(text, i) ==
    IF i > Len(text) THEN <<>>
    ELSE [j \in 1..Len(text[i]) |->
            [tok |-> text[i][j],
             sep |-> IF j > 1 THEN 1 ELSE IF i > 1 THEN 2 ELSE 0]]
         \o FlatFrom(text, i + 1)
Flat(text) == FlatFrom(text, 1)

RECURSIVE SumN(_, _)
SumN(f, i) == IF i > Len(f) THEN 0 ELSE f[i].tok.n + SumN(f, i + 1)
\* len(text.split())
WordCount(text) == SumN(Flat(text), 1)
RECURSIVE ParaWords(_, _)
ParaWords(para, i) == IF i > Len(para) THEN 0 ELSE para[i].n + ParaWords(para, i + 1)

\* index of the first token satisfying kind k and pattern p, 0 if none
FirstTok(f, k, p) ==
    LET S == {i \in 1..Len(f) : f[i].tok.k = k /\ f[i].tok.p = p}
    IN  IF S = {} THEN 0 ELSE CHOOSE i \in S : \A j \in S : i <= j

\* offsets of token i of the flattened text, in characters
RECURSIVE StartOf(_, _)
StartOf(f, i) ==
    IF i = 1 THEN f[1].sep
    ELSE StartOf(f, i - 1) + Chars(f[i - 1].tok) + f[i].sep
EndOf(f, i) == StartOf(f, i) + Chars(f[i].tok)

(***************************************************************************)
(* TemporalExtractor                                                       *)
(***************************************************************************)
EFFECTIVE_DATE_PATTERNS == 4
REVOCATION_PATTERNS == 4

\* _extract_effective_date: the patterns are tried in order; for each, the
\* first match in the text; a literal that does not parse moves on to the
\* next pattern; the last pattern has no group and uses the publication date
RECURSIVE EffFrom(_, _, _)
\* the date of the literal of match i (0: no match)
MatchDate(f, i) == IF i = 0 THEN NoDate ELSE ParseDate(f[i].tok.lit)
\* pattern p gave date d
EffTried(f, pub, p, d) ==
    IF d # NoDate THEN [raised |-> FALSE, date |-> d]
    ELSE EffFrom(f, pub, p + 1)
EffFrom(f, pub, p) ==
    IF p <= EFFECTIVE_DATE_PATTERNS
    THEN EffTried(f, pub, p, MatchDate(f, FirstTok(f, "eff", p)))
    ELSE IF FirstTok(f, "pub", 5) # 0 /\ pub # NoDate
         THEN AddDaysToDate(pub, DEFAULT_EFFECTIVE_DAYS)
         ELSE [raised |-> FALSE, date |-> NoDate]
ExtractEffectiveDate(text, pub) == EffFrom(Flat(text), pub, 1)

\* _check_revocation
CheckRevocation(text) ==
    \E i \in 1..Len(Flat(text)) : Flat(text)[i].tok.k = "rev"

Pow10(n) == IF n = 0 THEN 1 ELSE IF n = 1 THEN 10 ELSE 100

\* the first match of date_pattern in text[cueEnd : cueEnd + 100]: the first
\* literal after the cue of which the window holds "d/m/" and two digits of
\* the year; a literal the window cuts is read with the digits it holds
LitStart(f, j) == StartOf(f, j) + LitOffset(f[j].tok)
\* literal l read with room characters of window left from its start
CutLiteral(l, room) ==
    IF room - 6 < l[4]
    THEN <<l[1], l[2], l[3] \div Pow10(l[4] - (room - 6)), room - 6>>
    ELSE l
\* S: the literals after the cue that the window holds enough of
FirstInWindow(f, limit, S) ==
    IF S = {} THEN NoLit
    ELSE CutLiteral(f[CHOOSE x \in S : \A z \in S : x <= z].tok.lit,
                    limit - LitStart(f, CHOOSE x \in S : \A z \in S : x <= z))
WindowFrom(f, i, limit) ==
    FirstInWindow(f, limit,
        {j \in (i + 1)..Len(f) : HasLit(f[j].tok) /\ limit - LitStart(f, j) >= 8})
WindowLiteral(f, i) == WindowFrom(f, i, EndOf(f, i) + REVOCATION_WINDOW)

\* _extract_revocation_date
RECURSIVE RevFrom(_, _)
\* the literal after match i of a cue (0: no match)
CueLiteral(f, i) == IF i = 0 THEN NoLit ELSE WindowLiteral(f, i)
LiteralDate(l) == IF l = NoLit THEN NoDate ELSE ParseDate(l)
\* pattern p gave date d
RevTried(f, p, d) == IF d # NoDate THEN d ELSE RevFrom(f, p + 1)
RevFrom(f, p) ==
    IF p > REVOCATION_PATTERNS THEN NoDate
    ELSE RevTried(f, p, LiteralDate(CueLiteral(f, FirstTok(f, "rev", p))))
ExtractRevocationDate(text) == RevFrom(Flat(text), 1)

\* extract_dates(text, publication_date)
\* lines 124-128: no effective date but a publication date
DefaultEffective(eff, publication_date) ==
    IF eff.date = NoDate /\ publication_date # NoDate
    THEN AddDaysToDate(publication_date, DEFAULT_EFFECTIVE_DAYS)
    ELSE eff
\* lines 98-122: the result dict
DatesResult(publication_date, eff, fb, expiry, is_revoked) ==
    [raised |-> eff.raised \/ fb.raised,
     publication_date |-> publication_date,
     effective_date |-> fb.date,
     expiry_date |-> expiry,
     is_revoked |-> is_revoked]
DatesOf(text, publication_date, eff, is_revoked) ==
    DatesResult(publication_date, eff, DefaultEffective(eff, publication_date),
                IF is_revoked THEN ExtractRevocationDate(text) ELSE NoDate,
                is_revoked)
ExtractDates(text, publication_date) ==
    DatesOf(text, publication_date,
            ExtractEffectiveDate(text, publication_date), CheckRevocation(text))

(***************************************************************************)
(* Payloads                                                                *)
(***************************************************************************)
\* A payload is a dict. A key the dict does not hold is marked MissingStr,
\* MissingDate or NoIndex; dict.get reads it as None.
MissingStr == "<missing>"
MissingDate == -2
NoIndex == -1
GetS(v) == IF v = MissingStr THEN NoneStr ELSE v
GetD(v) == IF v = MissingDate THEN NoDate ELSE v

\* the dict the parsers build
Payload(rid, text, eff, exp, status) ==
    [regulation_id |-> rid, version |-> MissingStr, text |-> text,
     effective_date |-> eff, expiry_date |-> exp, status |-> status,
     superseded_by_version |-> MissingStr, supersedes_version |-> MissingStr,
     chunk_index |-> NoIndex]

(***************************************************************************)
(* LexMLParser                                                             *)
(***************************************************************************)
\* the article dict with the status not read from the text
ArticleDictActive(art, doc, temporal_info) ==
    IF temporal_info.raised THEN <<>>
    ELSE << Payload(Fmt(doc.lei_number) \o "-" \o art.id,
                    art.text, temporal_info.effective_date, temporal_info.expiry_date,
                    "active") >>

\* _parse_article: None (dropped) when the temporal extractor raises
ArticleDict(art, doc, temporal_info) ==
    IF temporal_info.raised THEN <<>>
    ELSE << Payload(Fmt(doc.lei_number) \o "-" \o art.id,
                    art.text, temporal_info.effective_date, temporal_info.expiry_date,
                    IF temporal_info.is_revoked THEN "superseded" ELSE "active") >>
ParseArticle(art, doc) ==
    ArticleDict(art, doc, ExtractDates(art.text, doc.publication_date))

RECURSIVE ExtractArticles(_, _)
ExtractArticles(doc, i) ==
    IF i > Len(doc.articles) THEN <<>>
    ELSE ParseArticle(doc.articles[i], doc) \o ExtractArticles(doc, i + 1)

\* parse_xml: the empty list when etree.parse raises
ParseXml(doc) == IF doc.ok THEN ExtractArticles(doc, 1) ELSE <<>>

(***************************************************************************)
(* PDFParser                                                               *)
(***************************************************************************)
\* a line of the extracted text: a section header "1.2 TITLE", a body line
\* or a blank line
Header(number, title) == [k |-> "hdr", number |-> number, title |-> title, toks |-> <<Words(2)>>]
Body(toks) == [k |-> "body", number |-> "", title |-> "", toks |-> toks]
Blank == [k |-> "blank", number |-> "", title |-> "", toks |-> <<>>]

RECURSIVE LinesTokens(_, _)
LinesTokens(lines, i) ==
    IF i > Len(lines) THEN <<>> ELSE lines[i].toks \o LinesTokens(lines, i + 1)
\* the whole text of the document, as the temporal extractor reads it
PdfText(lines) == IF LinesTokens(lines, 1) = <<>> THEN <<>> ELSE << LinesTokens(lines, 1) >>

\* _extract_metadata
MetadataDict(pdf, temporal_info) ==
    [doc_number |-> pdf.doc_number,
     effective_date |-> temporal_info.effective_date,
     expiry_date |-> temporal_info.expiry_date]
PdfMetadata(pdf) == MetadataDict(pdf, ExtractDates(PdfText(pdf.lines), NoDate))

\* _create_section
CreateSection(number, title, body, meta) ==
    Payload(meta.doc_number \o "-sec-" \o number,
            << <<Words(2)>> >> \o (IF body = <<>> THEN <<>> ELSE << body >>),
            meta.effective_date, meta.expiry_date, "active")

\* _extract_sections: cur is the open section (<<>> when none), body its lines
RECURSIVE SectionsFrom(_, _, _, _, _)
SectionsFrom(lines, i, cur, body, meta) ==
    IF i > Len(lines)
    THEN (IF cur = <<>> THEN <<>>
          ELSE << CreateSection(cur[1], cur[2], body, meta) >>)
    ELSE IF lines[i].k = "hdr"
    THEN (IF cur = <<>> THEN <<>>
          ELSE << CreateSection(cur[1], cur[2], body, meta) >>)
         \o SectionsFrom(lines, i + 1, <<lines[i].number, lines[i].title>>, <<>>, meta)
    ELSE IF lines[i].k = "body" /\ cur # <<>>
    THEN SectionsFrom(lines, i + 1, cur, body \o lines[i].toks, meta)
    ELSE SectionsFrom(lines, i + 1, cur, body, meta)

ExtractSections(lines, meta) ==
    LET secs == SectionsFrom(lines, 1, <<>>, <<>>, meta)
    IN  IF secs # <<>> THEN secs
        ELSE << Payload(meta.doc_number, PdfText(lines),
                        meta.effective_date, meta.expiry_date, "active") >>

\* parse_pdf: the empty list when the extraction raises
ParsePdf(pdf) ==
    IF pdf.ok THEN ExtractSections(pdf.lines, PdfMetadata(pdf)) ELSE <<>>

(***************************************************************************)
(* ArticleChunker                                                          *)
(***************************************************************************)
\* _create_chunk
CreateChunk(article, text, chunk_idx) ==
    [article EXCEPT !.text = text,
                    !.chunk_index = chunk_idx,
                    !.regulation_id = article.regulation_id \o "-chunk-" \o ToString(chunk_idx)]

\* __init__: "max_tokens or config.CHUNK_MAX_TOKENS"; None and 0 give the
\* configured value
OrConfigured(given, configured) == IF given = 0 THEN configured ELSE given

\* the loop with the paragraph that does not fit lost
RECURSIVE ChunkLoopDropping(_, _, _, _, _, _, _)
ChunkLoopDropping(article, paras, i, cur, size, n, max_tokens) ==
    IF i > Len(paras)
    THEN (IF cur # <<>> THEN << CreateChunk(article, cur, n) >> ELSE <<>>)
    ELSE IF size + ParaWords(paras[i], 1) > max_tokens /\ cur # <<>>
         THEN << CreateChunk(article, cur, n) >>
              \o ChunkLoopDropping(article, paras, i + 1, <<>>, 0, n + 1, max_tokens)
         ELSE ChunkLoopDropping(article, paras, i + 1, Append(cur, paras[i]),
                                size + ParaWords(paras[i], 1), n, max_tokens)

\* the loop of chunk over the paragraphs: cur is current_chunk, size is
\* current_size, n is len(chunks)
RECURSIVE ChunkLoop(_, _, _, _, _, _, _)
ChunkLoop(article, paras, i, cur, size, n, max_tokens) ==
    IF i > Len(paras)
    THEN (IF cur # <<>> THEN << CreateChunk(article, cur, n) >> ELSE <<>>)
    ELSE LET para_size == ParaWords(paras[i], 1)
         IN  IF size + para_size > max_tokens /\ cur # <<>>
             THEN << CreateChunk(article, cur, n) >>
                  \o ChunkLoop(article, paras, i + 1, << paras[i] >>, para_size, n + 1,
                               max_tokens)
             ELSE ChunkLoop(article, paras, i + 1, Append(cur, paras[i]),
                            size + para_size, n, max_tokens)

\* chunk of an ArticleChunker(max_tokens, overlap); self.overlap is read
\* nowhere
ChunkSized(article, max_tokens, overlap) ==
    IF WordCount(article.text) <= OrConfigured(max_tokens, CHUNK_MAX_TOKENS)
    THEN << article >>
    ELSE ChunkLoop(article, article.text, 1, <<>>, 0, 0,
                   OrConfigured(max_tokens, CHUNK_MAX_TOKENS))

\* chunk of the ArticleChunker() of the pipeline
Chunk(article) == ChunkSized(article, 0, 0)

RECURSIVE ChunkAll(_, _)
ChunkAll(articles, i) ==
    IF i > Len(articles) THEN <<>>
    ELSE Chunk(articles[i]) \o ChunkAll(articles, i + 1)

(***************************************************************************)
(* Embedding oracle and similarity                                         *)
(***************************************************************************)
\* The vector of a text is kept as its cosine similarity, in hundredths, to
\* the one query of the model: a function of the text alone.
Embed(text) == 65 + 5 * (WordCount(text) % 7)

(***************************************************************************)
(* The vector store (Qdrant client)                                        *)
(***************************************************************************)
\* The store maps a point id to [vector, payload].
EmptyStore == [i \in {} |-> 0]

\* client.upsert of one batch: each point overwrites the point of its id
RECURSIVE ClientUpsert(_, _, _)
ClientUpsert(st, batch, i) ==
    IF i > Len(batch) THEN st
    ELSE ClientUpsert((batch[i].id :> [vector |-> batch[i].vector,
                                       payload |-> batch[i].payload]) @@ st,
                      batch, i + 1)

\* client.set_payload: the keys of the given dict overwrite those of the
\* stored payload, the other keys stay
MergePayload(cur, upd) ==
    [regulation_id |-> IF upd.regulation_id = MissingStr THEN cur.regulation_id ELSE upd.regulation_id,
     version |-> IF upd.version = MissingStr THEN cur.version ELSE upd.version,
     text |-> upd.text,
     effective_date |-> IF upd.effective_date = MissingDate THEN cur.effective_date ELSE upd.effective_date,
     expiry_date |-> IF upd.expiry_date = MissingDate THEN cur.expiry_date ELSE upd.expiry_date,
     status |-> IF upd.status = MissingStr THEN cur.status ELSE upd.status,
     superseded_by_version |-> IF upd.superseded_by_version = MissingStr
                               THEN cur.superseded_by_version ELSE upd.superseded_by_version,
     supersedes_version |-> IF upd.supersedes_version = MissingStr
                            THEN cur.supersedes_version ELSE upd.supersedes_version,
     chunk_index |-> IF upd.chunk_index = NoIndex THEN cur.chunk_index ELSE upd.chunk_index]

ClientSetPayload(st, id, payload) ==
    IF id \in DOMAIN st
    THEN [st EXCEPT ![id].payload = MergePayload(st[id].payload, payload)]
    ELSE st

\* client.scroll with the filter of _find_regulation_points: the points whose
\* regulation_id (and version, when one is given) match, at most SCROLL_LIMIT
RECURSIVE SetToSeq(_)
SetToSeq(S) ==
    IF S = {} THEN <<>>
    ELSE LET x == CHOOSE y \in S : TRUE IN <<x>> \o SetToSeq(S \ {x})

FindRegulationPoints(st, regulation_id, version) ==
    LET M == {i \in DOMAIN st :
                /\ st[i].payload.regulation_id = regulation_id
                /\ (version \in {NoneStr, ""} \/ st[i].payload.version = version)}
        all == SetToSeq(M)
    IN  [j \in 1..(IF Len(all) > SCROLL_LIMIT THEN SCROLL_LIMIT ELSE Len(all)) |->
            [id |-> all[j], payload |-> st[all[j]].payload]]

(***************************************************************************)
(* QdrantManager                                                           *)
(***************************************************************************)
\* upsert_points, lines 146-153: a point without id gets a uuid4
RECURSIVE AssignIds(_, _, _)
AssignIds(points, i, next) ==
    IF i > Len(points) THEN <<>>
    ELSE IF points[i].id \in {NoneStr, MissingStr, ""}
    THEN << [points[i] EXCEPT !.id = "uuid-" \o ToString(next)] >>
         \o AssignIds(points, i + 1, next + 1)
    ELSE << points[i] >> \o AssignIds(points, i + 1, next)

NoIdCount(points) ==
    Cardinality({i \in 1..Len(points) : points[i].id \in {NoneStr, MissingStr, ""}})

\* the loop over the sub-batches; sub-batch number failAt raises (0: none)
RECURSIVE UploadBatches(_, _, _, _, _)
UploadBatches(st, qpoints, b, batch_size, failAt) ==
    IF (b - 1) * batch_size >= Len(qpoints) THEN [store |-> st, ok |-> TRUE]
    ELSE IF b = failAt THEN [store |-> st, ok |-> FALSE]
    ELSE LET hi == IF b * batch_size > Len(qpoints) THEN Len(qpoints) ELSE b * batch_size
             batch == SubSeq(qpoints, (b - 1) * batch_size + 1, hi)
         IN  UploadBatches(ClientUpsert(st, batch, 1), qpoints, b + 1, batch_size, failAt)

\* upsert_points(points): the store after it, its return value, and the ids
\* it gave the points
UpsertResult(r, qpoints) ==
    [store |-> r.store, ok |-> r.ok,
     ids |-> [i \in 1..Len(qpoints) |-> qpoints[i].id]]
UploadAll(st, qpoints, failAt) ==
    UpsertResult(UploadBatches(st, qpoints, 1, UPSERT_BATCH_SIZE, failAt), qpoints)
UpsertPoints(st, points, next, failAt) ==
    UploadAll(st, AssignIds(points, 1, next), failAt)

\* the temporal filter without its condition on status
TemporalFilterAnyStatus(payload, target_date) ==
    /\ GetD(payload.effective_date) # NoDate
    /\ GetD(payload.effective_date) <= target_date
    /\ \/ (GetD(payload.expiry_date) # NoDate /\ GetD(payload.expiry_date) >= target_date)
       \/ GetD(payload.expiry_date) = NoDate

\* the temporal filter with both bounds exclusive (lt / gt)
TemporalFilterExclusive(payload, target_date) ==
    /\ GetS(payload.status) = "active"
    /\ GetD(payload.effective_date) # NoDate
    /\ GetD(payload.effective_date) < target_date
    /\ \/ (GetD(payload.expiry_date) # NoDate /\ GetD(payload.expiry_date) > target_date)
       \/ GetD(payload.expiry_date) = NoDate

\* the temporal filter of search_temporal
TemporalFilter(payload, target_date) ==
    /\ GetS(payload.status) = "active"
    /\ GetD(payload.effective_date) # NoDate
    /\ GetD(payload.effective_date) <= target_date
    /\ \/ (GetD(payload.expiry_date) # NoDate /\ GetD(payload.expiry_date) >= target_date)
       \/ GetD(payload.expiry_date) = NoDate

NoFilter(payload, target_date) == TRUE

\* client.search: the points that pass the filter with score >= threshold,
\* by descending score, at most limit of them
RECURSIVE TopHits(_, _, _)
TopHits(st, C, limit) ==
    IF C = {} \/ limit = 0 THEN <<>>
    ELSE LET i == CHOOSE x \in C : \A y \in C : st[x].vector >= st[y].vector
         IN  << [id |-> i, score |-> st[i].vector, payload |-> st[i].payload] >>
             \o TopHits(st, C \ {i}, limit - 1)

\* search(query_vector, limit, score_threshold, filters); temporal says
\* which filter is given; fails says that the client raises
Search(st, limit, score_threshold, temporal, target_date, fails) ==
    LET lim == IF limit = 0 THEN SEARCH_TOP_K ELSE limit
        thr == IF score_threshold = 0 THEN SEARCH_SCORE_THRESHOLD ELSE score_threshold
        C == {i \in DOMAIN st :
                /\ st[i].vector >= thr
                /\ (temporal => TemporalFilter(st[i].payload, target_date))}
    IN  IF fails THEN <<>> ELSE TopHits(st, C, lim)

\* search_temporal(query_vector, target_date, limit): no threshold is passed
SearchTemporal(st, target_date, limit, fails) ==
    Search(st, limit, 0, TRUE, target_date, fails)

(***************************************************************************)
(* Inputs of the model                                                     *)
(***************************************************************************)
MaxSources == 2

\* LexML documents.  Lei 8666 in two versions of its article 5 (same law
\* number, same article id, another text), a document whose article carries
\* a revocation cue with a date, and one whose article is split.
XmlV1 ==
    [name |-> "lei8666-2019.xml", ok |-> TRUE, lei_number |-> "8666",
     publication_date |-> 20191201,
     articles |-> << [id |-> "art5",
                      text |-> << <<Words(1), Words(20), Eff(1, Lit(1, 1, 2020))>> >>] >>]
XmlV2 ==
    [name |-> "lei8666-2023.xml", ok |-> TRUE, lei_number |-> "8666",
     publication_date |-> 20230601,
     articles |-> << [id |-> "art5",
                      text |-> << <<Words(1), Words(30), Eff(1, Lit(15, 6, 2023))>> >>] >>]
XmlRev ==
    [name |-> "lei9000.xml", ok |-> TRUE, lei_number |-> "9000",
     publication_date |-> 20230310,
     articles |-> << [id |-> "art1",
                      text |-> << <<Words(1), Eff(2, Lit(1, 9, 2023))>>,
                                  <<Words(2), Rev(2), Words(3), DateTok(Lit(10, 1, 2020))>> >>],
                     [id |-> "art2",
                      text |-> << <<Words(1), Words(8), PubDe>> >>] >>]
XmlLong ==
    [name |-> "lei7565.xml", ok |-> TRUE, lei_number |-> NoneStr,
     publication_date |-> NoDate,
     articles |-> << [id |-> "art1",
                      text |-> << <<Words(1), Words(300), Eff(1, Lit(1, 1, 2021))>>,
                                  <<Words(2), Words(300)>>,
                                  <<Words(2), Words(100)>> >>],
                     [id |-> "", text |-> << <<Words(1), Words(9), Eff(3, Lit(2, 1, 2021))>> >>],
                     [id |-> "", text |-> << <<Words(1), Words(11), Eff(3, Lit(3, 1, 2021))>> >>] >>]
XmlBad ==
    [name |-> "broken.xml", ok |-> FALSE, lei_number |-> NoneStr,
     publication_date |-> NoDate, articles |-> <<>>]
XmlDocs == {XmlV1, XmlV2, XmlRev, XmlLong, XmlBad}

\* PDF documents
PdfIca ==
    [name |-> "ICA-100-12.pdf", ok |-> TRUE, doc_number |-> "ICA 100-12",
     lines |-> << Body(<<Words(4)>>),
                  Header("1", "DISPOSICOES"),
                  Body(<<Words(10), Eff(1, Lit(1, 3, 2022))>>),
                  Blank,
                  Header("1.1", "FINALIDADE"),
                  Body(<<Words(12)>>),
                  Header("1", "DISPOSICOES"),
                  Body(<<Words(5)>>) >>]
PdfPlain ==
    [name |-> "portaria.pdf", ok |-> TRUE, doc_number |-> "portaria",
     lines |-> << Body(<<Words(40), Eff(4, Lit(5, 5, 2022))>>) >>]
PdfDocs == {PdfIca, PdfPlain}

\* new_version_data of supersede_regulation
NewArt5v2 ==
    [id |-> "8666-art5-v2", vector |-> 90,
     payload |-> [Payload("8666-art5", << <<Words(1), Words(31)>> >>, 20230615, NoDate, "active")
                  EXCEPT !.version = "v2"]]
\* the id the ingestion pipeline gives the unit: its regulation_id
NewArt5SameId ==
    [id |-> "8666-art5", vector |-> 85,
     payload |-> [Payload("8666-art5", << <<Words(1), Words(32)>> >>, 20240101, NoDate, "active")
                  EXCEPT !.version = "v3"]]
\* no id, and an effective date before that of the version it replaces
NewArt5Early ==
    [id |-> MissingStr, vector |-> 80,
     payload |-> [Payload("8666-art5", << <<Words(1), Words(33)>> >>, 20190101, NoDate, "active")
                  EXCEPT !.version = "v2"]]
NewVersions == {NewArt5v2, NewArt5SameId, NewArt5Early}

OldRegulationIds == {"8666-art5"}
OldVersions == {NoneStr, "v2"}
TargetDates == {20191231, 20220701, 20230615}
Limits == {0, 1}
Callers == {"c1", "c2"}

(***************************************************************************)
(* State                                                                   *)
(***************************************************************************)
VARIABLES
    store,   \* the collection: point id -> [vector, payload]
    uuid,    \* number of uuid4 values drawn
    sup,     \* per caller: the supersede_regulation call it is in, or was in
             \* (during: it began while another call was between its store calls)
    ing,     \* the ingest_lexml / ingest_pdfs call in progress
    resp,    \* what the step just taken returned to its caller, if anything
    calls,   \* sources handed to the ingestion pipeline so far
    last,    \* the source last ingested in full, while nothing else wrote
    ocr      \* PDFOCRProcessor: its log in memory and on disk, its output files

vars == <<store, uuid, sup, ing, resp, calls, last, ocr>>

NoPoint == [id |-> MissingStr, vector |-> 0,
            payload |-> Payload(MissingStr, <<>>, MissingDate, MissingDate, MissingStr)]
IdleCaller ==
    [pc |-> "idle", rid |-> NoneStr, ver |-> NoneStr, new |-> NoPoint,
     old |-> <<>>, i |-> 0, ret |-> FALSE, newid |-> MissingStr, during |-> FALSE,
     newWas |-> <<>>]
IdleIngest == [pc |-> "idle", kind |-> "", n |-> 0, i |-> 0, total |-> 0]
NoWrite == [doc |-> "", ids |-> <<>>, times |-> 0]
\* arg, out: the arguments and the result of a call made on a component directly
NoResp == [op |-> "none", who |-> "", date |-> NoDate, limit |-> 0, hits |-> <<>>,
           failed |-> FALSE, total |-> 0, arg |-> <<>>, out |-> <<>>]

\* _load_log without a log file
EmptyLog == [processed_files |-> <<>>, failed_files |-> <<>>, last_run |-> 0]
\* no PDFOCRProcessor yet, the output directory empty
NoProcessor ==
    [inst |-> FALSE, processing_log |-> EmptyLog, log_file |-> <<>>, outputs |-> {},
     opened |-> 0, written |-> 0, runs |-> 0, pdf |-> "", ret |-> "none"]

Init ==
    /\ store = EmptyStore
    /\ uuid = 0
    /\ sup = [c \in Callers |-> IdleCaller]
    /\ ing = IdleIngest
    /\ resp = NoResp
    /\ calls = [sources |-> 0]
    /\ last = NoWrite
    /\ ocr = NoProcessor

(***************************************************************************)
(* IngestionPipeline                                                       *)
(***************************************************************************)
\* points prepared without an id: upsert_points draws a uuid4 for each
PreparePointsNoId(chunks) ==
    [i \in 1..Len(chunks) |->
        [id |-> MissingStr,
         vector |-> Embed(chunks[i].text),
         payload |-> chunks[i]]]

\* "Prepare points": the id of a point is the regulation_id of its chunk
PreparePoints(chunks) ==
    [i \in 1..Len(chunks) |->
        [id |-> chunks[i].regulation_id,
         vector |-> Embed(chunks[i].text),
         payload |-> chunks[i]]]

\* the body of the loop of ingest_lexml / ingest_pdfs for one source:
\* the store after it, what it adds to the total, the ids it wrote under
Uploaded(r, points) ==
    [store |-> r.store, added |-> Len(points), ids |-> r.ids,
     full |-> r.ok, drawn |-> NoIdCount(points)]
IngestPoints(st, points, next, embedFails, failAt) ==
    IF embedFails
    THEN [store |-> st, added |-> 0, ids |-> <<>>, full |-> FALSE, drawn |-> 0]
    ELSE Uploaded(UpsertPoints(st, points, next, failAt), points)
IngestSource(st, kind, doc, next, embedFails, failAt) ==
    IngestPoints(st,
                 PreparePoints(IF kind = "lexml" THEN ChunkAll(ParseXml(doc), 1)
                               ELSE ParsePdf(doc)),
                 next, embedFails, failAt)

\* ingest_lexml(xml_paths) / ingest_pdfs(pdf_paths) is called with n paths;
\* which document each path holds is read when the loop reaches it
IngestStart(kind, n) ==
    /\ resp.op # "search"
    /\ ing.pc = "idle"
    /\ calls.sources + n <= MaxSources
    /\ ing' = [pc |-> "run", kind |-> kind, n |-> n, i |-> 1, total |-> 0]
    /\ calls' = [calls EXCEPT !.sources = @ + n]
    /\ resp' = NoResp
    /\ UNCHANGED <<store, uuid, sup, last, ocr>>

\* one turn of the loop; after the last source the call returns the total
\* r: what the loop body did with the source
IngestTurn(doc, r) ==
    /\ store' = r.store
    /\ uuid' = uuid + r.drawn
    /\ last' = IF ~r.full THEN NoWrite
               ELSE [doc |-> doc.name, ids |-> r.ids,
                     times |-> IF last.doc = doc.name THEN 2 ELSE 1]
    /\ ing' = IF ing.i = ing.n THEN IdleIngest
              ELSE [ing EXCEPT !.i = @ + 1, !.total = ing.total + r.added]
    /\ resp' = IF ing.i = ing.n
               THEN [NoResp EXCEPT !.op = "ingest", !.total = ing.total + r.added]
               ELSE NoResp
IngestStep(doc, embedFails, failAt) ==
    /\ resp.op # "search"
    /\ ing.pc = "run"
    /\ IngestTurn(doc, IngestSource(store, ing.kind, doc, uuid, embedFails, failAt))
    /\ UNCHANGED <<sup, calls, ocr>>

(***************************************************************************)
(* VersionManager.supersede_regulation, one store call per step            *)
(***************************************************************************)
\* the scroll without the early return of lines 48-50: with no old point
\* the call goes on to add the new version
SupersedeFoundAdding(c, rid, ver, nv, old_points) ==
    /\ sup' = [sup EXCEPT ![c] =
              [pc |-> IF old_points = <<>> THEN "add" ELSE "mark",
               rid |-> rid, ver |-> ver, new |-> nv, old |-> old_points,
               i |-> 1, ret |-> FALSE, newid |-> MissingStr,
               during |-> \E d \in Callers \ {c} : sup[d].pc \in {"mark", "add"},
               newWas |-> IF nv.id \in DOMAIN store THEN <<store[nv.id]>> ELSE <<>>]]
    /\ resp' = NoResp

\* old_points is what the scroll returned
SupersedeFound(c, rid, ver, nv, old_points) ==
    /\ sup' = [sup EXCEPT ![c] =
              [pc |-> IF old_points = <<>> THEN "done" ELSE "mark",
               rid |-> rid, ver |-> ver, new |-> nv, old |-> old_points,
               i |-> 1, ret |-> FALSE, newid |-> MissingStr,
               during |-> \E d \in Callers \ {c} : sup[d].pc \in {"mark", "add"},
               newWas |-> IF nv.id \in DOMAIN store THEN <<store[nv.id]>> ELSE <<>>]]
    /\ resp' = IF old_points = <<>> THEN [NoResp EXCEPT !.op = "supersede", !.who = c]
               ELSE NoResp

\* lines 44-50: the scroll; an empty result returns False
SupersedeFind(c, rid, ver, nv, fails) ==
    /\ resp.op # "search"
    \* every caller makes one call; callers are alike, "c1" is the first to call
    /\ sup[c].pc = "idle"
    /\ c = "c2" => sup["c1"].pc # "idle"
    /\ SupersedeFound(c, rid, ver, nv,
                      IF fails THEN <<>> ELSE FindRegulationPoints(store, rid, ver))
    /\ UNCHANGED <<store, uuid, ing, calls, last, ocr>>

\* lines 53-59: the payload written over an old point
UpdatedPayload(point_payload, new_version_data) ==
    [point_payload EXCEPT
        !.status = "superseded",
        !.expiry_date = GetD(new_version_data.payload.effective_date),
        !.superseded_by_version = GetS(new_version_data.payload.version)]

\* lines 55-65: one turn of the loop over old_points; an exception of the
\* client ends the call with False
SupersedeMark(c, fails) ==
    /\ resp.op # "search"
    /\ sup[c].pc = "mark"
    /\ IF fails
       THEN /\ sup' = [sup EXCEPT ![c].pc = "done", ![c].ret = FALSE]
            /\ resp' = [NoResp EXCEPT !.op = "supersede", !.who = c]
            /\ UNCHANGED <<store, last>>
       ELSE /\ store' = ClientSetPayload(store, sup[c].old[sup[c].i].id,
                            UpdatedPayload(sup[c].old[sup[c].i].payload, sup[c].new))
            /\ sup' = [sup EXCEPT ![c].i = @ + 1,
                                  ![c].pc = IF sup[c].i = Len(sup[c].old) THEN "add" ELSE "mark"]
            /\ last' = NoWrite
            /\ resp' = NoResp
    /\ UNCHANGED <<uuid, ing, calls, ocr>>

\* r: what upsert_points did with the new version
SupersedeAdded(c, r) ==
    /\ store' = r.store
    /\ sup' = [sup EXCEPT ![c].pc = "done", ![c].ret = TRUE, ![c].newid = r.ids[1]]

\* lines 69-74: the new version is upserted; the result of upsert_points is
\* not read and the call returns True
SupersedeAdd(c, failAt) ==
    /\ resp.op # "search"
    /\ sup[c].pc = "add"
    /\ SupersedeAdded(c, UpsertPoints(store,
                             <<[sup[c].new EXCEPT !.payload.supersedes_version = sup[c].ver]>>,
                             uuid, failAt))
    /\ uuid' = uuid + NoIdCount(<<sup[c].new>>)
    /\ last' = NoWrite
    /\ resp' = [NoResp EXCEPT !.op = "supersede", !.who = c]
    /\ UNCHANGED <<ing, calls, ocr>>

(***************************************************************************)
(* Temporal search                                                         *)
(***************************************************************************)
\* a search the client fails returns the empty list, whatever was asked
Query(target_date, limit, fails) ==
    /\ resp.op # "search"
    /\ resp' = IF fails
               THEN [NoResp EXCEPT !.op = "search", !.failed = TRUE,
                        !.hits = SearchTemporal(store, target_date, limit, TRUE)]
               ELSE [NoResp EXCEPT !.op = "search", !.date = target_date, !.limit = limit,
                        !.hits = SearchTemporal(store, target_date, limit, FALSE)]
    /\ UNCHANGED <<store, uuid, sup, ing, calls, last, ocr>>

\* the caller of the search has its answer; the system goes on
Answered ==
    /\ resp.op = "search"
    /\ resp' = NoResp
    /\ UNCHANGED <<store, uuid, sup, ing, calls, last, ocr>>

(***************************************************************************)
(* Specification                                                           *)
(***************************************************************************)
Next ==
    \/ \E n \in 1..MaxSources : IngestStart("lexml", n)
    \/ \E n \in 1..MaxSources : IngestStart("pdf", n)
    \/ \E doc \in XmlDocs, e \in BOOLEAN, f \in {0, 1} :
          ing.kind = "lexml" /\ IngestStep(doc, e, f)
    \/ \E doc \in PdfDocs, e \in BOOLEAN, f \in {0, 1} :
          ing.kind = "pdf" /\ IngestStep(doc, e, f)
    \/ \E c \in Callers, rid \in OldRegulationIds, ver \in OldVersions,
          nv \in NewVersions, f \in BOOLEAN : SupersedeFind(c, rid, ver, nv, f)
    \/ \E c \in Callers, f \in BOOLEAN : SupersedeMark(c, f)
    \/ \E c \in Callers, f \in {0, 1} : SupersedeAdd(c, f)
    \/ \E d \in TargetDates, l \in Limits, f \in BOOLEAN : Query(d, l, f)
    \/ Answered

Spec == Init /\ [][Next]_vars

(***************************************************************************)
(* Properties                                                              *)
(***************************************************************************)
HitIds == {resp.hits[i].id : i \in 1..Len(resp.hits)}
Searched == resp.op = "search"
\* the limit and the threshold the search ran with
UsedLimit == IF resp.limit = 0 THEN SEARCH_TOP_K ELSE resp.limit

\* C1: every hit of a temporal search with target date D is a point of the
\* store, as stored, with status active, effective_date <= D and expiry_date
\* null or >= D; a point that fails one of these is not among the hits.
C1_TemporalHitsValid ==
    Searched =>
        \A i \in 1..Len(resp.hits) :
            LET h == resp.hits[i] IN
            /\ h.id \in DOMAIN store
            /\ h.payload = store[h.id].payload
            /\ h.payload.status = "active"
            /\ h.payload.effective_date \notin {NoDate, MissingDate}
            /\ h.payload.effective_date <= resp.date
            /\ \/ h.payload.expiry_date \in {NoDate, MissingDate}
               \/ h.payload.expiry_date >= resp.date

\* a search that returned a hit while the store holds a point with a score
\* above the threshold that is superseded, and one not yet effective
C1_Witness ==
    /\ Searched
    /\ Len(resp.hits) >= 1
    /\ \E i \in DOMAIN store :
          /\ store[i].vector >= SEARCH_SCORE_THRESHOLD
          /\ store[i].payload.status = "superseded"
          /\ i \notin HitIds
    /\ \E i \in DOMAIN store :
          /\ store[i].vector >= SEARCH_SCORE_THRESHOLD
          /\ store[i].payload.status = "active"
          /\ store[i].payload.effective_date > resp.date
          /\ i \notin HitIds

\* ---- supersession, as one call of caller c has left it -------------------
OldIds(c) == {sup[c].old[j].id : j \in 1..Len(sup[c].old)}
\* the new version as the call writes it (line 69)
NewOf(c) == [sup[c].new EXCEPT !.payload.supersedes_version = sup[c].ver]
Returned(c) == resp.op = "supersede" /\ resp.who = c
\* old chunk j carries the fields of lines 56-59
Marked(c, j) ==
    /\ sup[c].old[j].id \in DOMAIN store
    /\ store[sup[c].old[j].id].payload.status = "superseded"
    /\ store[sup[c].old[j].id].payload.expiry_date = GetD(sup[c].new.payload.effective_date)
    /\ store[sup[c].old[j].id].payload.superseded_by_version = GetS(sup[c].new.payload.version)
\* the new version is a point of the store
Inserted(c) ==
    /\ sup[c].newid \in DOMAIN store
    /\ store[sup[c].newid].payload = NewOf(c).payload
\* search hits are neither cut by the limit nor by the threshold
AllFit == /\ Cardinality(DOMAIN store) <= UsedLimit
          /\ \A i \in DOMAIN store : store[i].vector >= SEARCH_SCORE_THRESHOLD

\* C2: after v1 (effective E1) has been superseded by v2 (effective E2 > E1)
\* through supersede_regulation, a temporal query with E1 <= D < E2 returns
\* v1 and not v2, and one with D >= E2 returns v2.
C2_VisibilityAcrossVersions ==
    \A c \in Callers :
        ( /\ Searched /\ ~resp.failed /\ AllFit
          /\ sup[c].pc = "done" /\ sup[c].ret
          /\ Inserted(c)
          /\ sup[c].newid \notin OldIds(c)
          /\ \A j \in 1..Len(sup[c].old) : Marked(c, j) )
        => \A j \in 1..Len(sup[c].old) :
              LET E1 == GetD(sup[c].old[j].payload.effective_date)
                  E2 == GetD(sup[c].new.payload.effective_date)
              IN  (E1 > NoDate /\ E2 > E1 /\ sup[c].old[j].payload.status = "active") =>
                    /\ (E1 <= resp.date /\ resp.date < E2) =>
                          /\ sup[c].old[j].id \in HitIds
                          /\ sup[c].newid \notin HitIds
                    /\ resp.date >= E2 => sup[c].newid \in HitIds

\* C3: when supersede_regulation returns True, every old chunk has status
\* superseded, expiry_date = the new version's effective_date and
\* superseded_by = the new version's version, and the new version's chunk is
\* in the store with supersedes = the old version string.
C3_SupersessionFields ==
    \A c \in Callers :
        (Returned(c) /\ sup[c].ret) =>
            /\ \A j \in 1..Len(sup[c].old) : Marked(c, j)
            /\ Inserted(c)
            /\ store[sup[c].newid].payload.supersedes_version = sup[c].ver

\* the chunks the call of c touches are as they were before it
Untouched(c) ==
    /\ \A j \in 1..Len(sup[c].old) :
          /\ sup[c].old[j].id \in DOMAIN store
          /\ store[sup[c].old[j].id].payload = sup[c].old[j].payload
    /\ IF sup[c].new.id = MissingStr
       THEN sup[c].newid = MissingStr \/ sup[c].newid \notin DOMAIN store
       ELSE IF sup[c].newWas = <<>> THEN sup[c].new.id \notin DOMAIN store
            ELSE sup[c].new.id \in DOMAIN store /\ store[sup[c].new.id] = sup[c].newWas[1]

\* C4: when supersede_regulation returns (True or False), either every old
\* chunk is marked superseded and the new version inserted, or the store is
\* as it was before the call.
C4_AllOrNothing ==
    \A c \in Callers :
        (Returned(c) /\ \A d \in Callers \ {c} : sup[d].pc = "idle") =>
            \/ (Inserted(c) /\ \A j \in 1..Len(sup[c].old) : Marked(c, j))
            \/ Untouched(c)

\* the store before the call of c (old chunks as found) and after it (old
\* chunks marked, new version upserted)
PreStore(c) ==
    [i \in DOMAIN store |->
        IF i \in OldIds(c)
        THEN [store[i] EXCEPT !.payload =
                 (CHOOSE o \in {sup[c].old[j] : j \in 1..Len(sup[c].old)} : o.id = i).payload]
        ELSE store[i]]
PostStore(c) ==
    LET marked == [i \in DOMAIN store |->
                     IF i \in OldIds(c)
                     THEN [store[i] EXCEPT !.payload = UpdatedPayload(PreStore(c)[i].payload, sup[c].new)]
                     ELSE store[i]]
    IN  UpsertPoints(marked, <<NewOf(c)>>, uuid, 0)
Pair(c) == OldIds(c) \cup {PostStore(c).ids[1]}
IdsOf(hits) == {hits[i].id : i \in 1..Len(hits)}

\* C5: a temporal query that runs while supersede_regulation is between its
\* store calls sees, of the version pair, what it would see before the call
\* or what it would see after it, never a mix.
C5_SnapshotIsolation ==
    \A c \in Callers :
        ( /\ Searched /\ ~resp.failed
          /\ sup[c].pc \in {"mark", "add"}
          /\ \A d \in Callers \ {c} : sup[d].pc = "idle"
          /\ Cardinality(DOMAIN PostStore(c).store) <= UsedLimit )
        => \/ HitIds \cap Pair(c)
                = IdsOf(SearchTemporal(PreStore(c), resp.date, resp.limit, FALSE)) \cap Pair(c)
           \/ HitIds \cap Pair(c)
                = IdsOf(SearchTemporal(PostStore(c).store, resp.date, resp.limit, FALSE)) \cap Pair(c)

\* caller w alone has superseded the chunks c1 found: they carry w's fields,
\* w's new version is in the store and l's is not
WinnerAlone(w, l) ==
    /\ \A j \in 1..Len(sup["c1"].old) :
          /\ sup["c1"].old[j].id \in DOMAIN store
          /\ store[sup["c1"].old[j].id].payload
                = UpdatedPayload(sup["c1"].old[j].payload, sup[w].new)
    /\ Inserted(w)
    /\ sup[l].newid = sup[w].newid \/ sup[l].newid \notin DOMAIN store

\* C6: two overlapping supersede_regulation calls for the same old version
\* that both return True leave the store as one of them alone would: the
\* old chunks carry the fields of one caller and only its new version is in.
C6_Serialized ==
    ( /\ sup["c1"].pc = "done" /\ sup["c2"].pc = "done"
      /\ sup["c2"].during
      /\ sup["c1"].ret /\ sup["c2"].ret
      /\ sup["c1"].rid = sup["c2"].rid /\ sup["c1"].ver = sup["c2"].ver
      /\ sup["c1"].new.payload.regulation_id = sup["c1"].rid
      /\ sup["c2"].new.payload.regulation_id = sup["c2"].rid
      /\ sup["c1"].newid \notin OldIds("c1") /\ sup["c2"].newid \notin OldIds("c1")
      /\ sup["c1"].newid \in DOMAIN store /\ sup["c2"].newid \in DOMAIN store )
    => WinnerAlone("c1", "c2") \/ WinnerAlone("c2", "c1")

\* C7: no step of ingestion or supersession removes a chunk of the store or
\* changes its text.
C7_HistoryKept ==
    [][\A i \in DOMAIN store :
          /\ i \in DOMAIN store'
          /\ store'[i].payload.text = store[i].payload.text]_vars

\* C8: a run of ingest_lexml / ingest_pdfs over a source, right after a run
\* over the same source, gives the points the same ids and leaves the store,
\* with its number of points, as it was.
C8_ReingestIdempotent ==
    [][(last.times >= 1 /\ last'.times = 2 /\ last'.doc = last.doc /\ ing.pc = "run") =>
          /\ last'.ids = last.ids
          /\ store' = store
          /\ Cardinality(DOMAIN store') = Cardinality(DOMAIN store)]_vars

\* a source of two or more units, two of them under one id, has been
\* ingested twice in a row
C8_Witness ==
    /\ last.times = 2
    /\ Len(last.ids) >= 2
    /\ \E i, j \in 1..Len(last.ids) : i # j /\ last.ids[i] = last.ids[j]
    /\ \A i \in 1..Len(last.ids) : last.ids[i] \in DOMAIN store

\* C9: a chunk whose status is superseded keeps that status in every step
\* that leaves it in the store with its text.
C9_LifecycleMonotonic ==
    [][\A i \in DOMAIN store :
          ( /\ store[i].payload.status = "superseded"
            /\ i \in DOMAIN store'
            /\ store'[i].payload.text = store[i].payload.text )
          => store'[i].payload.status = "superseded"]_vars

\* C10: every chunk of the store with effective_date and expiry_date both
\* set has effective_date <= expiry_date.
C10_DatesOrdered ==
    \A i \in DOMAIN store :
        (GetD(store[i].payload.effective_date) > NoDate
            /\ GetD(store[i].payload.expiry_date) > NoDate)
        => store[i].payload.effective_date <= store[i].payload.expiry_date

\* no supersede_regulation call is between its store calls
Quiet == \A c \in Callers : sup[c].pc \notin {"mark", "add"}

\* C11: in every store state outside a supersession in progress, a chunk with
\* status superseded has an expiry_date, and another chunk of the store (its
\* successor) has that date as its effective_date.
C11_SupersededHasSuccessor ==
    Quiet =>
        \A i \in DOMAIN store :
            GetS(store[i].payload.status) = "superseded"
            => /\ GetD(store[i].payload.expiry_date) # NoDate
               /\ \E j \in DOMAIN store \ {i} :
                      GetD(store[j].payload.effective_date) = GetD(store[i].payload.expiry_date)

(***************************************************************************)
(* Temporal search over stores of dated PDF documents                      *)
(***************************************************************************)
\* the literal dd/mm/yyyy of a date
LitOf(d) == Lit(DayOf(d), MonthOf(d), YearOf(d))

\* a PDF without section headers: n words, "entra em vigor em <eff>" and,
\* when exp is a date, "fica revogado <exp>"
DatedPdf(number, n, eff, exp) ==
    [name |-> number \o ".pdf", ok |-> TRUE, doc_number |-> number,
     lines |-> << Body(<<Words(n), Eff(1, LitOf(eff))>>
                       \o (IF exp = NoDate THEN <<>>
                           ELSE <<Rev(1), DateTok(LitOf(exp))>>)) >>]

BoundaryWords == {2, 3}
BoundaryEffective == {20220630, 20220701, 20220702}
BoundaryExpiry == {NoDate, 20220630, 20220701, 20220702, 20230615}

\* the store after ingest_pdfs of two such documents into an empty collection
TwoPdfStore(a, b) ==
    IngestSource(IngestSource(EmptyStore, "pdf", a, 0, FALSE, 0).store,
                 "pdf", b, 0, FALSE, 0).store
BoundaryStores ==
    {TwoPdfStore(DatedPdf("portaria-1", n1, e1, x1), DatedPdf("portaria-2", n2, e2, x2)) :
        n1 \in BoundaryWords, e1 \in BoundaryEffective, x1 \in BoundaryExpiry,
        n2 \in {3}, e2 \in BoundaryEffective, x2 \in BoundaryExpiry}

InitBoundary ==
    /\ store \in BoundaryStores
    /\ uuid = 0
    /\ sup = [c \in Callers |-> IdleCaller]
    /\ ing = IdleIngest
    /\ resp = NoResp
    /\ calls = [sources |-> 2]
    /\ last = NoWrite
    /\ ocr = NoProcessor

NextBoundary ==
    \/ \E d \in TargetDates, l \in Limits, f \in BOOLEAN : Query(d, l, f)
    \/ Answered

SpecBoundary == InitBoundary /\ [][NextBoundary]_vars

\* chunk i of the store is valid on date D, bounds included
ValidOn(i, D) ==
    /\ GetS(store[i].payload.status) = "active"
    /\ GetD(store[i].payload.effective_date) # NoDate
    /\ GetD(store[i].payload.effective_date) <= D
    /\ \/ GetD(store[i].payload.expiry_date) = NoDate
       \/ GetD(store[i].payload.expiry_date) >= D
\* the valid chunks at or over the threshold that score at least as high as i
Rivals(i, D) ==
    {j \in DOMAIN store \ {i} :
        ValidOn(j, D) /\ store[j].vector >= SEARCH_SCORE_THRESHOLD
                      /\ store[j].vector >= store[i].vector}

\* C12: a temporal search for date D returns every active chunk with
\* effective_date <= D and expiry_date null or >= D (so also effective_date = D
\* and expiry_date = D) that scores at least the threshold and fits in the limit.
C12_BoundsInclusive ==
    (Searched /\ ~resp.failed) =>
        \A i \in DOMAIN store :
            ( /\ ValidOn(i, resp.date)
              /\ store[i].vector >= SEARCH_SCORE_THRESHOLD
              /\ Cardinality(Rivals(i, resp.date)) < UsedLimit )
            => i \in HitIds

\* a search returned a chunk effective on the very date asked with no expiry
\* and a chunk that expires on that date
C12_Witness ==
    /\ Searched /\ ~resp.failed
    /\ \E h \in 1..Len(resp.hits) :
          /\ resp.hits[h].payload.effective_date = resp.date
          /\ GetD(resp.hits[h].payload.expiry_date) = NoDate
    /\ \E h \in 1..Len(resp.hits) :
          /\ resp.hits[h].payload.expiry_date = resp.date
          /\ resp.hits[h].payload.effective_date < resp.date

(***************************************************************************)
(* QdrantManager.upsert_points called with a list of points                *)
(***************************************************************************)
\* upsert_points(points, batch_size)
UploadSized(st, qpoints, batch_size, failAt) ==
    UpsertResult(UploadBatches(st, qpoints, 1, batch_size, failAt), qpoints)
UpsertPointsSized(st, points, next, batch_size, failAt) ==
    UploadSized(st, AssignIds(points, 1, next), batch_size, failAt)

\* the lists of points given: up to three points with their ids, all with
\* vector v
PointIds == {"p1", "p2", "p3"}
GivenPoint(i, v) ==
    [id |-> i, vector |-> v,
     payload |-> Payload(i, << <<Words(1)>> >>, 20200101, NoDate, "active")]
PointLists ==
    {[k \in 1..Len(ids) |-> GivenPoint(ids[k], v)] :
        ids \in {<<"p1">>, <<"p2">>, <<"p1", "p2">>, <<"p2", "p3">>, <<"p1", "p2", "p3">>},
        v \in {70, 80}}
BatchSizes == {2, UPSERT_BATCH_SIZE}

\* r: what upsert_points did
Upserted(points, batch_size, r) ==
    /\ store' = r.store
    /\ resp' = [NoResp EXCEPT !.op = "upsert",
                              !.arg = [points |-> points, batch_size |-> batch_size],
                              !.out = [ok |-> r.ok, ids |-> r.ids]]
\* one call; sub-batch number failAt raises in the client (0: none)
UpsertCall(points, batch_size, failAt) ==
    /\ Upserted(points, batch_size,
                UpsertPointsSized(store, points, uuid, batch_size, failAt))
    /\ UNCHANGED <<uuid, sup, ing, calls, last, ocr>>

NextUpsert ==
    \E points \in PointLists, b \in BatchSizes, f \in 0..2 : UpsertCall(points, b, f)

SpecUpsert == Init /\ [][NextUpsert]_vars

\* C13: a call of upsert_points that returns True leaves every point of the
\* list in the store as given; a call that returns False leaves the store as
\* it was before the call (no point of the list written).
C13_UpsertAllOrNothing ==
    [][resp'.op = "upsert" =>
        IF resp'.out.ok
        THEN \A k \in 1..Len(resp'.arg.points) :
                /\ resp'.out.ids[k] \in DOMAIN store'
                /\ store'[resp'.out.ids[k]].vector = resp'.arg.points[k].vector
        ELSE store' = store]_vars

\* C14: in ingest_lexml / ingest_pdfs the loop goes on to the next source
\* whatever happened to the current one, and the result accounts for each
\* source as a success or a failure: a call with one source that failed
\* (nothing written to an empty collection) does not report chunks ingested.
C14_IngestAccountsSources ==
    [][ /\ (ing.pc = "run" /\ ing.i < ing.n /\ ing' # ing)
            => (ing'.pc = "run" /\ ing'.i = ing.i + 1)
        /\ (ing.pc = "run" /\ ing.n = 1 /\ resp'.op = "ingest"
                /\ store = EmptyStore /\ store' = EmptyStore)
            => resp'.total = 0 ]_vars

(***************************************************************************)
(* ICA_Extractor: PDFOCRProcessor                                          *)
(***************************************************************************)
MaxRuns == 3
\* the stems of the PDF files of the input directory
PdfStems == {"ICA-100-12", "ICA-63-10"}
\* what a call of process_single_pdf meets: nothing raises; the extraction
\* (pdfplumber, OCR) raises; the write of the log at line 169 raises
Outcomes == {"ok", "extract", "save"}

InSeq(x, seq) == \E k \in 1..Len(seq) : seq[k] = x

\* __init__: the output directory is kept, the log is read from its file
NewProcessor ==
    /\ ocr' = [ocr EXCEPT !.inst = TRUE,
                          !.processing_log = IF ocr.log_file = <<>> THEN EmptyLog
                                             ELSE ocr.log_file[1],
                          !.pdf = "", !.ret = "none"]
    /\ UNCHANGED <<store, uuid, sup, ing, resp, calls, last>>

\* lines 176-184: the entry of failed_files; the clock is the number of the call
FailedEntry(pdf_name, error, now) ==
    [file |-> pdf_name, error |-> error, timestamp |-> now]

\* process_single_pdf(pdf_path), the call number now
ProcessedPdf(pdf_name, outcome, now) ==
    IF InSeq(pdf_name, ocr.processing_log.processed_files) /\ pdf_name \in ocr.outputs
    THEN \* lines 120-122: skipped
         [ocr EXCEPT !.runs = now, !.pdf = pdf_name, !.ret = "true"]
    ELSE IF outcome = "ok"
    THEN \* lines 131-174
         [ocr EXCEPT !.runs = now, !.pdf = pdf_name, !.ret = "true",
                     !.opened = @ + 1, !.written = @ + 1,
                     !.outputs = @ \cup {pdf_name},
                     !.processing_log =
                         [@ EXCEPT !.processed_files = Append(@, pdf_name),
                                   !.last_run = now],
                     !.log_file =
                         << [ocr.processing_log EXCEPT
                                !.processed_files = Append(@, pdf_name),
                                !.last_run = now] >>]
    ELSE IF outcome = "extract"
    THEN \* lines 131, 176-184: nothing written but the log
         [ocr EXCEPT !.runs = now, !.pdf = pdf_name, !.ret = "false",
                     !.opened = @ + 1,
                     !.processing_log =
                         [@ EXCEPT !.failed_files =
                                      Append(@, FailedEntry(pdf_name, "extract", now)),
                                   !.last_run = now],
                     !.log_file =
                         << [ocr.processing_log EXCEPT
                                !.failed_files =
                                    Append(@, FailedEntry(pdf_name, "extract", now)),
                                !.last_run = now] >>]
    ELSE \* lines 164-169 then 176-184: the output is written and the name
         \* appended, _save_log raises; the handler appends the failure and
         \* its _save_log writes the log
         [ocr EXCEPT !.runs = now, !.pdf = pdf_name, !.ret = "false",
                     !.opened = @ + 1, !.written = @ + 1,
                     !.outputs = @ \cup {pdf_name},
                     !.processing_log =
                         [@ EXCEPT !.processed_files = Append(@, pdf_name),
                                   !.failed_files =
                                      Append(@, FailedEntry(pdf_name, "save", now)),
                                   !.last_run = now],
                     !.log_file =
                         << [ocr.processing_log EXCEPT
                                !.processed_files = Append(@, pdf_name),
                                !.failed_files =
                                    Append(@, FailedEntry(pdf_name, "save", now)),
                                !.last_run = now] >>]

ProcessSinglePdf(pdf_name, outcome) ==
    /\ ocr.inst
    /\ ocr.runs < MaxRuns
    /\ ocr' = ProcessedPdf(pdf_name, outcome, ocr.runs + 1)
    /\ UNCHANGED <<store, uuid, sup, ing, resp, calls, last>>

NextOcr ==
    \/ NewProcessor
    \/ \E pdf_name \in PdfStems, outcome \in Outcomes : ProcessSinglePdf(pdf_name, outcome)

SpecOcr == Init /\ [][NextOcr]_vars

\* the step is a call of process_single_pdf
OcrCalled == ocr'.runs = ocr.runs + 1
\* a call for pdf_name would be skipped in this state of the processor
Skippable(o, pdf_name) ==
    InSeq(pdf_name, o.processing_log.processed_files) /\ pdf_name \in o.outputs

\* C15: a call of process_single_pdf for a source recorded in processed_files
\* whose output exists returns True without opening the PDF or writing the
\* output; a new processor reads back every source recorded as processed; a
\* call that returns False has appended the source to failed_files with an
\* error string and the time of the call, and the source is processed again
\* by the next call for it (it is not skippable).
C15_LogSkipsCompleted ==
    [][ /\ (OcrCalled /\ Skippable(ocr, ocr'.pdf))
            => (ocr'.ret = "true" /\ ocr'.opened = ocr.opened
                                  /\ ocr'.written = ocr.written)
        /\ (~OcrCalled /\ ocr'.inst)
            => \A pdf_name \in PdfStems :
                  InSeq(pdf_name, ocr.processing_log.processed_files)
                  => InSeq(pdf_name, ocr'.processing_log.processed_files)
        /\ (OcrCalled /\ ocr'.ret = "false")
            => /\ ocr'.processing_log.failed_files # <<>>
               /\ ocr'.log_file = <<ocr'.processing_log>>
               /\ ocr'.processing_log.failed_files[Len(ocr'.processing_log.failed_files)].file
                      = ocr'.pdf
               /\ ocr'.processing_log.failed_files[Len(ocr'.processing_log.failed_files)].timestamp
                      = ocr'.runs
               /\ ~Skippable(ocr', ocr'.pdf) ]_vars

(***************************************************************************)
(* VectorSearch, RAGPipeline.query and the /api/search-regulations handler *)
(***************************************************************************)
\* VectorSearch.search_temporal, lines 90-100: the dict of a result
FormatTemporal(h) ==
    [regulation_id |-> GetS(h.payload.regulation_id),
     version |-> GetS(h.payload.version),
     text |-> h.payload.text,
     score |-> h.score,
     effective_date |-> GetD(h.payload.effective_date),
     expiry_date |-> GetD(h.payload.expiry_date)]
\* VectorSearch.search, lines 50-59: the other keys of the payload come along
FormatPlain(h) ==
    [regulation_id |-> GetS(h.payload.regulation_id),
     text |-> h.payload.text,
     score |-> h.score,
     version |-> h.payload.version,
     effective_date |-> h.payload.effective_date,
     expiry_date |-> h.payload.expiry_date,
     status |-> h.payload.status]

\* RAGPipeline.query lines 41-44: "if date" chooses the search; neither call
\* is given a score threshold
Retrieve(st, date, limit, fails) ==
    IF date # NoDate
    THEN [k \in 1..Len(Search(st, limit, 0, TRUE, date, fails)) |->
            FormatTemporal(Search(st, limit, 0, TRUE, date, fails)[k])]
    ELSE [k \in 1..Len(Search(st, limit, 0, FALSE, NoDate, fails)) |->
            FormatPlain(Search(st, limit, 0, FALSE, NoDate, fails)[k])]

\* lines 57-76 with the LLM called whatever was retrieved
RagAnswerAlways(results, llmFails) ==
    IF llmFails
    THEN [answer |-> "", sources |-> <<>>, llm |-> "failed", llm_time_ms |-> 0,
          raised |-> TRUE, retrieved |-> results]
    ELSE [answer |-> "generated", sources |-> results, llm |-> "ok", llm_time_ms |-> 1,
          raised |-> FALSE, retrieved |-> results]

\* lines 48-76: the response for what was retrieved; an exception of
\* generate_with_context leaves query (llm.py:199-201 raises again)
RagAnswer(results, llmFails) ==
    IF results = <<>>
    THEN [answer |-> "canned", sources |-> <<>>, llm |-> "none", llm_time_ms |-> 0,
          raised |-> FALSE, retrieved |-> results]
    ELSE IF llmFails
    THEN [answer |-> "", sources |-> <<>>, llm |-> "failed", llm_time_ms |-> 0,
          raised |-> TRUE, retrieved |-> results]
    ELSE [answer |-> "generated", sources |-> results, llm |-> "ok", llm_time_ms |-> 1,
          raised |-> FALSE, retrieved |-> results]

\* SearchRequest: limit in 1..50, score_threshold None or in 0.0..1.0
NoThreshold == -1
RequestLimits == {1, 2, 5}
RequestThresholds == {NoThreshold, 0, 50, 90, 100}

\* search_regulations(request): request.score_threshold is not passed on
SearchRegulations(date, limit, score_threshold, searchFails, llmFails) ==
    /\ resp.op # "rag"
    /\ resp' = [NoResp EXCEPT
                  !.op = "rag", !.date = date, !.limit = limit,
                  !.arg = [score_threshold |-> score_threshold],
                  !.out = RagAnswer(Retrieve(store, date, limit, searchFails), llmFails)]
    /\ UNCHANGED <<store, uuid, sup, ing, calls, last, ocr>>

\* the client has the response (or the error); the server goes on
Responded ==
    /\ resp.op = "rag"
    /\ resp' = NoResp
    /\ UNCHANGED <<store, uuid, sup, ing, calls, last, ocr>>

NextRag ==
    \/ \E date \in TargetDates \cup {NoDate}, limit \in RequestLimits,
          t \in RequestThresholds, sf \in BOOLEAN, lf \in BOOLEAN :
           SearchRegulations(date, limit, t, sf, lf)
    \/ Responded

SpecRag == InitBoundary /\ [][NextRag]_vars

Asked == resp.op = "rag"

\* C16: a query whose retrieval returned no hit answers with the canned text,
\* no sources and llm_time_ms = 0 and does not call the LLM; the LLM is called
\* only when retrieval returned a hit.
C16_Abstention ==
    Asked =>
        /\ resp.out.retrieved = <<>>
            => /\ resp.out.answer = "canned"
               /\ resp.out.sources = <<>>
               /\ resp.out.llm_time_ms = 0
               /\ resp.out.llm = "none"
               /\ ~resp.out.raised
        /\ resp.out.llm # "none" => resp.out.retrieved # <<>>

\* a query over a collection that holds chunks retrieved nothing and was
\* answered with the canned text
C16_Witness ==
    /\ Asked
    /\ DOMAIN store # {}
    /\ resp.out.retrieved = <<>>
    /\ resp.out.answer = "canned"

\* C17: a query whose retrieval returned hits and whose LLM call failed does
\* not raise; it returns a fallback answer with the retrieved sources.
C17_LlmFallback ==
    (Asked /\ resp.out.retrieved # <<>> /\ resp.out.llm = "failed")
    => /\ ~resp.out.raised
       /\ resp.out.answer # ""
       /\ resp.out.sources = resp.out.retrieved

\* C18: the response to a request with limit k and score_threshold t holds at
\* most k sources, by descending score, each with score >= t.
C18_LimitAndThreshold ==
    (Asked /\ ~resp.out.raised /\ resp.arg.score_threshold # NoThreshold)
    => /\ Len(resp.out.sources) <= resp.limit
       /\ \A k \in 1..Len(resp.out.sources) :
             /\ resp.out.sources[k].score >= resp.arg.score_threshold
             /\ k > 1 => resp.out.sources[k - 1].score >= resp.out.sources[k].score

(***************************************************************************)
(* TemporalExtractor.extract_dates called with a text                      *)
(***************************************************************************)
\* the phrases of the texts given: plain words, "entra em vigor em
\* 15/06/2023", the same with 31/02/2023 (no date), "vigência a partir de
\* 01/01/2024", "após publicação", "entra em vigor na data de sua publicação"
Phrases ==
    {Words(3), Eff(1, Lit(15, 6, 2023)), Eff(1, Lit(31, 2, 2023)),
     Eff(2, Lit(1, 1, 2024)), Pub, PubDe}
\* texts of one paragraph of one or two phrases
GivenTexts ==
    {<< <<a>> >> : a \in Phrases} \cup {<< <<a, b>> >> : a \in Phrases, b \in Phrases}
PublicationDates == {NoDate, 20230101, 20240310}

\* extract_dates(text, publication_date)
ExtractDatesCall(text, publication_date) ==
    /\ resp' = [NoResp EXCEPT
                  !.op = "extract_dates",
                  !.arg = [text |-> text, publication_date |-> publication_date],
                  !.out = ExtractDates(text, publication_date)]
    /\ UNCHANGED <<store, uuid, sup, ing, calls, last, ocr>>

NextDates ==
    \E text \in GivenTexts, publication_date \in PublicationDates :
        ExtractDatesCall(text, publication_date)

SpecDates == Init /\ [][NextDates]_vars

Extracted == resp.op = "extract_dates"
\* the dates of the explicit effective-date phrases of a text whose literal
\* is a date
ExplicitDates(text) ==
    {ParseDate(Flat(text)[i].tok.lit) :
        i \in {j \in 1..Len(Flat(text)) : Flat(text)[j].tok.k = "eff"}} \ {NoDate}
\* the text holds a publication-referent phrase and no other vigor cue
OnlyPublicationCue(text) ==
    /\ \E i \in 1..Len(Flat(text)) : Flat(text)[i].tok.k \in {"pub", "pubde"}
    /\ \A i \in 1..Len(Flat(text)) : Flat(text)[i].tok.k # "eff"

\* C19: when the text holds an explicit effective-date phrase whose literal
\* is a date, effective_date is the date of such a phrase, whatever the
\* publication date and the other phrases; a date derived from the
\* publication date is returned only when the text holds none.
C19_ExplicitDateFirst ==
    Extracted =>
        /\ ExplicitDates(resp.arg.text) # {}
            => resp.out.effective_date \in ExplicitDates(resp.arg.text)
        /\ (ExplicitDates(resp.arg.text) = {} /\ resp.arg.publication_date = NoDate)
            => resp.out.effective_date = NoDate

\* C20: when the only vigor cue of the text is a publication-referent phrase
\* and a publication date P is given, effective_date = P.
C20_PublicationReferent ==
    (Extracted /\ OnlyPublicationCue(resp.arg.text)
               /\ resp.arg.publication_date # NoDate)
    => resp.out.effective_date = resp.arg.publication_date

(***************************************************************************)
(* extract_dates called with texts that hold revocation cues               *)
(***************************************************************************)
\* plain words (3, and 15: ninety characters with the spaces around them),
\* "revoga a Lei 1234", "fica revogada", the literals 15/06/2023 and
\* 31/02/2023 (no date), "entra em vigor em 31/02/2023", "após publicação"
CuePhrases ==
    {Words(3), Words(15), Rev(1), Rev(2), DateTok(Lit(15, 6, 2023)),
     DateTok(Lit(31, 2, 2023)), Eff(1, Lit(31, 2, 2023)), Pub}
\* texts of one paragraph of one, two or three phrases
CueTexts ==
    {<< <<a>> >> : a \in CuePhrases}
    \cup {<< <<a, b>> >> : a \in CuePhrases, b \in CuePhrases}
    \cup {<< <<a, b, c>> >> : a \in CuePhrases, b \in CuePhrases, c \in CuePhrases}
\* none, a date of the year 2023, the last day datetime knows
CuePublicationDates == {NoDate, 20230101, 99991231}

\* the caller has the result (or the error) and may call again
DatesReturned ==
    /\ resp.op = "extract_dates"
    /\ resp' = NoResp
    /\ UNCHANGED <<store, uuid, sup, ing, calls, last, ocr>>

NextCues ==
    \/ /\ resp.op # "extract_dates"
       /\ \E text \in CueTexts, publication_date \in CuePublicationDates :
              ExtractDatesCall(text, publication_date)
    \/ DatesReturned

SpecCues == Init /\ [][NextCues]_vars

\* C21: extract_dates raises for no text and no ISO publication date: it
\* returns a result; a literal that does not parse leaves its field null, and
\* with no publication date and no explicit date that resolves,
\* effective_date is null.
C21_NeverRaises ==
    Extracted =>
        /\ ~resp.out.raised
        /\ (resp.arg.publication_date = NoDate /\ ExplicitDates(resp.arg.text) = {})
            => resp.out.effective_date = NoDate

\* the revocation cues of a flattened text
Cues(f) == {i \in 1..Len(f) : f[i].tok.k = "rev"}
\* the literals that lie whole within the 100 characters after cue i
WholeInWindow(f, i) ==
    {j \in (i + 1)..Len(f) :
        /\ HasLit(f[j].tok)
        /\ LitStart(f, j) + 6 + f[j].tok.lit[4] <= EndOf(f, i) + REVOCATION_WINDOW}
\* the dates written within the 100 characters after a cue
WindowDates(f) ==
    UNION {{ParseDate(f[j].tok.lit) : j \in WholeInWindow(f, i)} : i \in Cues(f)}
        \ {NoDate}
RevocationAsStated(f, out) ==
    /\ out.is_revoked = (Cues(f) # {})
    /\ out.expiry_date # NoDate => out.is_revoked
    /\ out.is_revoked =>
          IF WindowDates(f) = {} THEN out.expiry_date = NoDate
          ELSE out.expiry_date \in WindowDates(f)

\* C22: is_revoked is true exactly for the texts that hold a revocation cue;
\* expiry_date is set only when is_revoked, and then to the date literal
\* written within the 100 characters after the cue, null when there is none.
C22_RevocationExtraction ==
    (Extracted /\ ~resp.out.raised)
    => RevocationAsStated(Flat(resp.arg.text), resp.out)

(***************************************************************************)
(* ArticleChunker.chunk called with a unit                                 *)
(***************************************************************************)
\* sentences of one, two and four words
Sentences == {Words(1), Words(2), Words(4)}
\* paragraphs of one or two sentences
Paragraphs == {<<a>> : a \in Sentences} \cup {<<a, b>> : a \in Sentences, b \in Sentences}
\* unit texts of one, two or three paragraphs
UnitTexts ==
    {<<a>> : a \in Paragraphs}
    \cup {<<a, b>> : a \in Paragraphs, b \in Paragraphs}
    \cup {<<a, b, c>> : a \in Paragraphs, b \in Paragraphs, c \in Paragraphs}
\* ArticleChunker(max_tokens, overlap): 0 stands for the argument left out
MaxTokensSettings == {0, 3, 5}
OverlapSettings == {0, 1, 2}

\* chunker = ArticleChunker(max_tokens, overlap); chunker.chunk(article)
ChunkCall(text, max_tokens, overlap) ==
    /\ resp' = [NoResp EXCEPT
                  !.op = "chunk",
                  !.arg = [text |-> text,
                           max_tokens |-> OrConfigured(max_tokens, CHUNK_MAX_TOKENS),
                           overlap |-> OrConfigured(overlap, CHUNK_OVERLAP)],
                  !.out = ChunkSized(Payload("lei-art1", text, NoDate, NoDate, "active"),
                                     max_tokens, overlap)]
    /\ UNCHANGED <<store, uuid, sup, ing, calls, last, ocr>>

\* the caller has the chunks and may call again
ChunkReturned ==
    /\ resp.op = "chunk"
    /\ resp' = NoResp
    /\ UNCHANGED <<store, uuid, sup, ing, calls, last, ocr>>

NextChunk ==
    \/ /\ resp.op # "chunk"
       /\ \E text \in UnitTexts, max_tokens \in MaxTokensSettings,
             overlap \in OverlapSettings : ChunkCall(text, max_tokens, overlap)
    \/ ChunkReturned

SpecChunk == Init /\ [][NextChunk]_vars

Chunked == resp.op = "chunk"
\* text.split(): word k of a phrase of n words is written <<n, k>>
RECURSIVE SplitFrom(_, _)
SplitFrom(f, i) ==
    IF i > Len(f) THEN <<>>
    ELSE [k \in 1..f[i].tok.n |-> <<f[i].tok.n, k>>] \o SplitFrom(f, i + 1)
Split(text) == SplitFrom(Flat(text), 1)
FirstWords(w, k) == SubSeq(w, 1, k)
LastWords(w, k) == SubSeq(w, Len(w) - k + 1, Len(w))
\* the paragraphs of a text that are the given one
Occurs(text, para) == \E i \in 1..Len(text) : text[i] = para

\* C23: when chunk returns several chunks, every chunk after the first
\* begins with the last OVERLAP words of the chunk before it, word for word,
\* followed by the next paragraph.
C23_ChunkOverlap ==
    (Chunked /\ Len(resp.out) > 1) =>
        \A k \in 2..Len(resp.out) :
            /\ Len(Split(resp.out[k - 1].text)) >= resp.arg.overlap
            /\ Len(Split(resp.out[k].text)) > resp.arg.overlap
            /\ FirstWords(Split(resp.out[k].text), resp.arg.overlap)
                 = LastWords(Split(resp.out[k - 1].text), resp.arg.overlap)

\* the words of the chunks one after the other; the chunker repeats no
\* window at the start of a chunk, so none is taken out
RECURSIVE Concatenated(_, _)
Concatenated(chunks, k) ==
    IF k > Len(chunks) THEN <<>>
    ELSE Split(chunks[k].text) \o Concatenated(chunks, k + 1)

\* C24: the texts of the chunks, one after the other, are the text of the
\* unit word for word: no word lost, repeated or out of order.
C24_ChunkingLossless ==
    Chunked => Concatenated(resp.out, 1) = Split(resp.arg.text)
C24_Witness ==
    /\ Chunked
    /\ Len(resp.out) = 3
    /\ Len(resp.arg.text[1]) = 2

\* the words of the longest sentence of a text
LongestSentence(text) ==
    CHOOSE n \in {Flat(text)[i].tok.n : i \in 1..Len(Flat(text))} :
        \A j \in 1..Len(Flat(text)) : Flat(text)[j].tok.n <= n

\* C25: no chunk holds more words than MAX_TOKENS plus the words of the
\* longest sentence of the unit.
C25_BoundedChunkSize ==
    Chunked =>
        \A k \in 1..Len(resp.out) :
            WordCount(resp.out[k].text)
                <= resp.arg.max_tokens + LongestSentence(resp.arg.text)

(***************************************************************************)
(* The section extractors, line by line                                    *)
(***************************************************************************)
\* two more lines of an extracted text: one that starts with a capital
\* letter and no number ("MINISTÉRIO DA DEFESA"), and a number alone on its
\* line (a page number); a Body line starts with a small letter
Capital == [k |-> "cap", number |-> "", title |-> "", toks |-> <<Words(3)>>]
PageNumber(n) == [k |-> "num", number |-> n, title |-> "", toks |-> <<Words(1)>>]

\* PDFParser._extract_sections with the lines of each section kept apart:
\* cur is the line of the open header (0: none), body the lines of
\* current_text; a section is [pos, numero, body]
RECURSIVE SectionLines(_, _, _, _)
ClosedSection(lines, cur, body) ==
    IF cur = 0 THEN <<>>
    ELSE << [pos |-> cur, numero |-> lines[cur].number, body |-> body] >>
SectionLines(lines, i, cur, body) ==
    IF i > Len(lines) THEN ClosedSection(lines, cur, body)
    ELSE IF lines[i].k = "hdr"
    THEN ClosedSection(lines, cur, body) \o SectionLines(lines, i + 1, i, <<>>)
    ELSE IF lines[i].k # "blank"
    THEN SectionLines(lines, i + 1, cur, Append(body, i))
    ELSE SectionLines(lines, i + 1, cur, body)
\* with the fallback of lines 177-189: the whole text as one section
ExtractSectionLines(lines) ==
    IF SectionLines(lines, 1, 0, <<>>) # <<>> THEN SectionLines(lines, 1, 0, <<>>)
    ELSE << [pos |-> 0, numero |-> "1", body |-> [i \in 1..Len(lines) |-> i]] >>

\* the first line from i on that is not blank, 0 if none
RECURSIVE NextWritten(_, _)
NextWritten(lines, i) ==
    IF i > Len(lines) THEN 0
    ELSE IF lines[i].k # "blank" THEN i
    ELSE NextWritten(lines, i + 1)
\* the last line of the match of
\*   ^(\d+(?:\.\d+)*)\s+([A-Z...][^\n]+?)(?=\n|$)   (re.MULTILINE)
\* that starts at line i, 0 when none starts there: a header line, or a
\* number alone on its line with, across the line breaks that \s+ takes, a
\* line that starts with a capital letter
MatchEnd(lines, i) ==
    IF lines[i].k = "hdr" THEN i
    ELSE IF /\ lines[i].k = "num"
            /\ NextWritten(lines, i + 1) # 0
            /\ lines[NextWritten(lines, i + 1)].k = "cap"
    THEN NextWritten(lines, i + 1)
    ELSE 0
\* extrair_todas_secoes_numeradas: (posicao, numero, titulo) of every match
RECURSIVE SecoesFrom(_, _)
SecoesFrom(lines, i) ==
    IF i > Len(lines) THEN <<>>
    ELSE (IF MatchEnd(lines, i) = 0 THEN <<>>
          ELSE << [pos |-> i, numero |-> lines[i].number,
                   titulo |-> lines[MatchEnd(lines, i)].title] >>)
         \o SecoesFrom(lines, i + 1)
ExtrairTodasSecoesNumeradas(lines) == SecoesFrom(lines, 1)

\* texto[a:b].strip() as the lines left: the blank lines at both ends go
StripLines(lines, W) ==
    IF W = {} THEN <<>>
    ELSE [k \in 1..((CHOOSE x \in W : \A y \in W : y <= x)
                    - (CHOOSE x \in W : \A y \in W : x <= y) + 1) |->
            (CHOOSE x \in W : \A y \in W : x <= y) + k - 1]
Written(lines, a, b) == {i \in a..b : lines[i].k # "blank"}
\* posicao_fim: the nearest section start after posicao_inicio, else the end
PosicaoFim(posicao_inicio, lines, todas_secoes) ==
    IF \E k \in 1..Len(todas_secoes) : todas_secoes[k].pos > posicao_inicio
    THEN CHOOSE e \in {todas_secoes[k].pos : k \in 1..Len(todas_secoes)} :
            /\ e > posicao_inicio
            /\ \A k \in 1..Len(todas_secoes) :
                  todas_secoes[k].pos > posicao_inicio => e <= todas_secoes[k].pos
    ELSE Len(lines) + 1
\* extrair_texto_secao: the first line is taken off when it matches
\* ^\d+(?:\.\d+)*\s+.+ , which a number alone on its line does not
ExtrairTextoSecao(posicao_inicio, lines, todas_secoes) ==
    IF lines[posicao_inicio].k = "hdr"
    THEN StripLines(lines, Written(lines, posicao_inicio + 1,
                                   PosicaoFim(posicao_inicio, lines, todas_secoes) - 1))
    ELSE StripLines(lines, Written(lines, posicao_inicio,
                                   PosicaoFim(posicao_inicio, lines, todas_secoes) - 1))
\* extrair_secoes_flat_para_rag: texto_completo (texto_proprio) per section
SecoesFlat(lines, todas_secoes) ==
    [k \in 1..Len(todas_secoes) |->
        [pos |-> todas_secoes[k].pos, numero |-> todas_secoes[k].numero,
         body |-> ExtrairTextoSecao(todas_secoes[k].pos, lines, todas_secoes)]]
ExtrairSecoesFlatParaRag(lines) == SecoesFlat(lines, ExtrairTodasSecoesNumeradas(lines))

\* the lines given: two headers, a body line, a capital line, a page number
\* and a blank line; texts of one to four lines
GivenLines ==
    {Header("1", "DISPOSICOES"), Header("1.1", "FINALIDADE"), Body(<<Words(3)>>),
     Capital, PageNumber("12"), Blank}
GivenPages ==
    {<<a>> : a \in GivenLines}
    \cup {<<a, b>> : a \in GivenLines, b \in GivenLines}
    \cup {<<a, b, c>> : a \in GivenLines, b \in GivenLines, c \in GivenLines}
    \cup {<<a, b, c, d>> : a \in GivenLines, b \in GivenLines,
                            c \in GivenLines, d \in GivenLines}

\* PDFParser._extract_sections(text, metadata)
ExtractSectionsCall(lines) ==
    /\ resp' = [NoResp EXCEPT !.op = "sections",
                              !.arg = [lines |-> lines],
                              !.out = ExtractSectionLines(lines)]
    /\ UNCHANGED <<store, uuid, sup, ing, calls, last, ocr>>
\* extrair_secoes_flat_para_rag(texto_cru, ...)
ExtrairSecoesCall(lines) ==
    /\ resp' = [NoResp EXCEPT !.op = "secoes",
                              !.arg = [lines |-> lines],
                              !.out = ExtrairSecoesFlatParaRag(lines)]
    /\ UNCHANGED <<store, uuid, sup, ing, calls, last, ocr>>
\* the caller has the sections and may call again
SectionsReturned ==
    /\ resp.op \in {"sections", "secoes"}
    /\ resp' = NoResp
    /\ UNCHANGED <<store, uuid, sup, ing, calls, last, ocr>>

NextSections ==
    \/ /\ resp.op = "none"
       /\ \E lines \in GivenPages : ExtractSectionsCall(lines)
    \/ /\ resp.op = "none"
       /\ \E lines \in GivenPages : ExtrairSecoesCall(lines)
    \/ SectionsReturned

SpecSections == Init /\ [][NextSections]_vars

Sectioned == resp.op \in {"sections", "secoes"}
\* where the headers an extractor detects start, and the lines they take
HeaderStarts(op, lines) ==
    IF op = "sections" THEN {i \in 1..Len(lines) : lines[i].k = "hdr"}
    ELSE {i \in 1..Len(lines) : MatchEnd(lines, i) # 0}
HeaderLines(op, lines) ==
    HeaderStarts(op, lines)
    \cup (IF op = "sections" THEN {}
          ELSE {MatchEnd(lines, i) : i \in HeaderStarts(op, lines)})
InBody(section, i) == \E k \in 1..Len(section.body) : section.body[k] = i
\* the header nearest before line i
HeaderBefore(starts, i) ==
    CHOOSE h \in starts : h < i /\ \A g \in starts : g < i => g <= h
SectionsPartition(lines, out, starts, headers) ==
    /\ \A i \in 1..Len(lines) :
         (lines[i].k # "blank" /\ i \notin headers /\ \E h \in starts : h < i)
         => \A k \in 1..Len(out) :
               InBody(out[k], i) <=> out[k].pos = HeaderBefore(starts, i)
    /\ \A k \in 1..Len(out) : \A i \in headers : ~InBody(out[k], i)

\* C26: in both section extractors, every line after the first header that
\* is neither blank nor a header is in the body of exactly one section, the
\* one of the nearest header before it, of any level; no body holds a
\* header line.
C26_SectionBodiesPartition ==
    Sectioned =>
        SectionsPartition(resp.arg.lines, resp.out,
                          HeaderStarts(resp.op, resp.arg.lines),
                          HeaderLines(resp.op, resp.arg.lines))

\* C27: a call of supersede_regulation made while no stored point matches
\* (old_regulation_id, old_version) returns False at once and leaves the
\* store as it was: no point modified, the new version not inserted.
C27_NoMatchNoEffect ==
    [][\A c \in Callers :
          (/\ sup[c].pc = "idle"
           /\ sup'[c].pc # "idle"
           /\ FindRegulationPoints(store, sup'[c].rid, sup'[c].ver) = <<>>)
          => /\ sup'[c].pc = "done"
             /\ ~sup'[c].ret
             /\ resp'.op = "supersede"
             /\ resp'.who = c
             /\ store' = store]_vars
\* a call has just returned False for a regulation the store holds under
\* another version
C27_Witness ==
    \E c \in Callers :
        /\ resp.op = "supersede"
        /\ resp.who = c
        /\ ~sup[c].ret
        /\ sup[c].old = <<>>
        /\ \E i \in DOMAIN store : store[i].payload.regulation_id = sup[c].rid
        /\ FindRegulationPoints(store, sup[c].rid, sup[c].ver) = <<>>

\* what a turn of the loop of ingest_lexml / ingest_pdfs added to the total
AddedBy(before, after, returned) ==
    (IF after.pc = "idle" THEN returned.total ELSE after.total) - before.total

\* C30: the total of ingest_lexml / ingest_pdfs counts the points written:
\* a source whose parse, embedding or upsert failed adds 0 to it, a source
\* whose upsert succeeded adds the number of its chunks.
C30_TotalCountsWritten ==
    [][(ing.pc = "run" /\ ing' # ing) =>
          IF last'.doc = "" THEN AddedBy(ing, ing', resp') = 0
          ELSE AddedBy(ing, ing', resp') = Len(last'.ids)]_vars

(***************************************************************************)
(* Ingestion of a source that changed, and of a revoked article            *)
(***************************************************************************)
\* a paragraph of 306 words that gives the date of effect, one of 302 words
FirstParagraph == <<Words(1), Words(300), Eff(1, Lit(1, 1, 2021))>>
OtherParagraph == <<Words(2), Words(300)>>
\* the file cba.xml in three states: article 1 of three paragraphs (three
\* chunks), of two (two chunks), of one (no split)
XmlCba(text) ==
    [name |-> "cba.xml", ok |-> TRUE, lei_number |-> "7565",
     publication_date |-> NoDate,
     articles |-> << [id |-> "art1", text |-> text] >>]
XmlCbaV1 == XmlCba(<<FirstParagraph, OtherParagraph, OtherParagraph>>)
XmlCbaV2 == XmlCba(<<FirstParagraph, OtherParagraph>>)
XmlCbaV3 == XmlCba(<<FirstParagraph>>)
\* an article in force since 01/01/2019 whose text says "fica revogado"
XmlRevoked ==
    [name |-> "lei9100.xml", ok |-> TRUE, lei_number |-> "9100",
     publication_date |-> 20181201,
     articles |-> << [id |-> "art1",
                      text |-> << <<Words(1), Eff(1, Lit(1, 1, 2019)), Rev(2), Words(3)>> >>] >>]
ChangedDocs == {XmlCbaV1, XmlCbaV2, XmlCbaV3, XmlRevoked}
\* a PDF whose one section says "fica revogado"
PdfRevoking ==
    [name |-> "revoga.pdf", ok |-> TRUE, doc_number |-> "revoga",
     lines |-> << Header("1", "DISPOSICOES"),
                  Body(<<Words(9), Eff(4, Lit(5, 5, 2022)), Rev(2), Words(2)>>) >>]
\* a successor of the revoked article, for supersede_regulation
NewArt1v2 ==
    [id |-> "9100-art1-v2", vector |-> 90,
     payload |-> [Payload("9100-art1", << <<Words(1), Words(12)>> >>, 20230615, NoDate, "active")
                  EXCEPT !.version = "v2"]]

NextChanged ==
    \/ \E n \in 1..MaxSources : IngestStart("lexml", n)
    \/ \E n \in 1..MaxSources : IngestStart("pdf", n)
    \/ \E doc \in ChangedDocs, e \in BOOLEAN, f \in {0, 1} :
          ing.kind = "lexml" /\ IngestStep(doc, e, f)
    \/ \E doc \in {PdfPlain, PdfRevoking}, e \in BOOLEAN, f \in {0, 1} :
          ing.kind = "pdf" /\ IngestStep(doc, e, f)
    \/ \E c \in Callers, f \in BOOLEAN :
          SupersedeFind(c, "9100-art1", NoneStr, NewArt1v2, f)
    \/ \E c \in Callers, f \in BOOLEAN : SupersedeMark(c, f)
    \/ \E c \in Callers, f \in {0, 1} : SupersedeAdd(c, f)
    \/ \E d \in TargetDates, l \in Limits, f \in BOOLEAN : Query(d, l, f)
    \/ Answered

SpecChanged == Init /\ [][NextChanged]_vars

\* the ids a unit can be stored under: its regulation_id, or that with
\* "-chunk-<n>"
MaxChunks == 3
ChunkIds(regulation_id) ==
    {regulation_id \o "-chunk-" \o ToString(n) : n \in 0..(MaxChunks - 1)}
UnitIds(regulation_id) == {regulation_id} \cup ChunkIds(regulation_id)
\* every paragraph of the chunk is one of the text
PartOf(chunk_text, text) ==
    \A j \in 1..Len(chunk_text) : \E m \in 1..Len(text) : text[m] = chunk_text[j]
\* point i with payload p holds article a of doc, whole or a chunk of it
Holds(i, p, doc, a) ==
    /\ i \in UnitIds(Fmt(doc.lei_number) \o "-" \o doc.articles[a].id)
    /\ PartOf(p.text, doc.articles[a].text)
\* the status a point written by the ingestion of a source has
StoredStatus(kind, i, p) ==
    IF kind = "pdf" THEN p.status = "active"
    ELSE \E doc \in ChangedDocs : \E a \in 1..Len(doc.articles) :
            /\ Holds(i, p, doc, a)
            /\ p.status = (IF CheckRevocation(doc.articles[a].text)
                           THEN "superseded" ELSE "active")
\* no hit holds an article whose text has a revocation cue
NoRevokedHit(hits) ==
    \A k \in 1..Len(hits) :
        \A doc \in ChangedDocs : \A a \in 1..Len(doc.articles) :
            CheckRevocation(doc.articles[a].text)
            => ~Holds(hits[k].id, hits[k].payload, doc, a)

\* C28: the ingestion stores a LexML article as superseded exactly when its
\* text has a revocation cue, otherwise as active, and a PDF section always
\* as active; no temporal search, for any target date, returns an article
\* stored with a cue, with or without a successor in the store.
C28_RevokedByCue ==
    [][ /\ (ing.pc = "run" /\ ing' # ing /\ last'.doc # "")
            => \A k \in 1..Len(last'.ids) :
                  StoredStatus(ing.kind, last'.ids[k], store'[last'.ids[k]].payload)
        /\ resp'.op = "search" => NoRevokedHit(resp'.hits) ]_vars
\* a search returned a hit on a date on which the revoked article, in the
\* store with a score above the threshold and no successor, was in force;
\* the hit is a PDF section whose text has a revocation cue
C28_Witness ==
    /\ Searched
    /\ Len(resp.hits) >= 1
    /\ "9100-art1" \in DOMAIN store
    /\ store["9100-art1"].payload.status = "superseded"
    /\ store["9100-art1"].vector >= SEARCH_SCORE_THRESHOLD
    /\ store["9100-art1"].payload.effective_date <= resp.date
    /\ store["9100-art1"].payload.expiry_date = NoDate
    /\ "9100-art1-v2" \notin DOMAIN store
    /\ "revoga-sec-1" \in HitIds

\* a temporal search on D would return point i if the limit let it
Searchable(i, D) ==
    /\ store[i].vector >= SEARCH_SCORE_THRESHOLD
    /\ TemporalFilter(store[i].payload, D)
\* the units of the changed sources
ChangedUnits == {"7565-art1", "9100-art1"}
LastIds == {last.ids[k] : k \in 1..Len(last.ids)}

\* C29: after a source is ingested again, a chunk "<regulation_id>-chunk-<k>"
\* that an earlier ingestion wrote for one of its units, and the latest did
\* not write (the unit now gives fewer chunks, or one under the id
\* "<regulation_id>"), is no longer searchable.
C29_ReingestReplacesChunks ==
    last.times = 2 =>
        \A u \in ChangedUnits :
            (LastIds \cap UnitIds(u) # {})
            => \A i \in (DOMAIN store \cap ChunkIds(u)) \ LastIds :
                  \A D \in TargetDates : ~Searchable(i, D)

====
